---- MODULE Spec2Model ----
(***************************************************************************)
(* Model of backend/ai_generator.py: AIGenerator.generate_response and the *)
(* bounded sequential tool-calling loop it delegates to; and of the        *)
(* collaborators the backend tests exercise: the vector store with its     *)
(* SearchResults, the course search tool and the session history.          *)
(*                                                                         *)
(* The LLM backend (client.messages.create) and the tool dispatcher        *)
(* (tool_manager.execute_tool) are external collaborators: each call       *)
(* either returns a value drawn from a bounded set or raises.              *)
(*                                                                         *)
(* Strings are sequences of fragments.  A fragment is either a literal     *)
(* piece of program text, Lit("..."), or a text produced by the backend,   *)
(* a record [lead, core, tag]: `lead` whitespace characters followed by    *)
(* `core` characters that neither start nor end with whitespace; `tag`     *)
(* tells one wording from another.                                         *)
(***************************************************************************)
EXTENDS Integers, Sequences, FiniteSets, TLC

VARIABLES
    pc,                \* position of the invocation of generate_response
    args,              \* arguments of the current invocation
    api_params,        \* api_params built by generate_response
    messages,          \* local message list of the tool loop
    current_response,  \* latest backend response
    current_round,     \* round counter of the tool loop
    tool_results,      \* tool results collected in the current round
    idx,               \* next content block the round's for-loop looks at
    calls,             \* parameters of every backend call issued, in order
    responses,         \* every response the backend returned, in order
    dispatched,        \* tool-use blocks handed to execute_tool, in order
    backend_fault,     \* the exception a backend call raised, if one did
    salvage_ran,       \* _salvage_partial_response was entered
    result,            \* outcome of generate_response
    course_catalog,    \* titles stored in the catalog collection
    course_content,    \* chunks stored in the content collection
    last_sources,      \* last_sources of the course search tool
    last_op,           \* the latest call on the store or the search tool
    sessions,          \* exchanges kept per session id
    asked,             \* every exchange recorded per session id since it was cleared
    handled,           \* requests the HTTP handlers have answered, with the calls they made
    round_prompts,     \* calls of _build_round_system_prompt with their results
    self_base_params,  \* base_params of the generator object
    earlier            \* what the generator's earlier invocation had reached when it returned

genVars == <<pc, args, api_params, messages, current_response, current_round,
             tool_results, idx, calls, responses, dispatched, backend_fault,
             salvage_ran, result>>
searchVars == <<course_catalog, course_content, last_sources, last_op>>
sessionVars == <<sessions, asked>>
apiVars == <<handled>>
promptVars == <<round_prompts>>
generatorVars == <<self_base_params, earlier>>
vars == <<genVars, searchVars, sessionVars, apiVars, promptVars, generatorVars>>

---------------------------------------------------------------------------
(* Bounds of the model *)

\* longest content list a backend response carries
MaxBlocks == 2
\* leading whitespace of the padded backend text
MaxPad == 1
\* most exchanges recorded on one session before it is cleared
MaxAsked == 3
\* most backend calls one invocation is followed through
MaxCalls == 3
\* most content blocks of a response where invocations are followed to their
\* return
MaxStepBlocks == 1
\* most requests the HTTP handlers answer
MaxRequests == 2
\* largest round number and round limit a round prompt is built for
MaxRoundArg == 3
\* most round prompts built one after another
MaxPromptCalls == 2

(* Program constants *)

max_rounds == 2
SalvageMinLen == 20

---------------------------------------------------------------------------
(* Strings *)

Lit(s) == [lit |-> s]

\* str.strip() on a backend text: surrounding whitespace removed
PyStrip(t) == [t EXCEPT !.lead = 0]

\* len() of a backend text
PyLen(t) == t.lead + t.core

\* `needle in s` for a literal the messages carry as one fragment
Contains(s, needle) == \E i \in DOMAIN s : s[i] = Lit(needle)

---------------------------------------------------------------------------
(* Backend responses *)

StopReasons == {"tool_use", "end_turn"}

\* the two lengths of backend text around the salvage threshold: one wording
\* whose trimmed length exceeds it, one padded wording whose raw length
\* exceeds it while its trimmed length does not
TextShapes ==
    { [lead |-> 0, core |-> SalvageMinLen + 1],
      [lead |-> MaxPad, core |-> SalvageMinLen] }

BlockKinds ==
    { [type |-> "tool_use", lead |-> 0, core |-> 0] }
    \cup { [type |-> "text", lead |-> s.lead, core |-> s.core] : s \in TextShapes }

\* the i-th content block of the k-th response; ids and wordings are unique
Block(kind, k, i) ==
    IF kind.type = "tool_use"
    THEN [type |-> "tool_use", id |-> <<k, i>>, name |-> "search_course_content"]
    ELSE [type |-> "text",
          text |-> [lead |-> kind.lead, core |-> kind.core, tag |-> <<k, i>>]]

Contents(k) ==
    UNION { { [i \in 1..n |-> Block(sh[i], k, i)] : sh \in [1..n -> BlockKinds] }
            : n \in 0..MaxBlocks }

Responses(k) == [stop_reason : StopReasons, content : Contents(k)]

NoResponse == [stop_reason |-> "none", content |-> <<>>]

---------------------------------------------------------------------------
(* Exceptions *)

\* direct base class of each exception class that occurs
Parent(cls) ==
    CASE cls = "BadRequestError"    -> "APIStatusError"
      [] cls = "RateLimitError"     -> "APIStatusError"
      [] cls = "APIStatusError"     -> "APIError"
      [] cls = "InternalServerError" -> "APIStatusError"
      [] cls = "APIConnectionError" -> "APIError"
      [] cls = "APIError"           -> "Exception"
      [] cls = "AttributeError"     -> "Exception"
      [] cls = "IndexError"         -> "Exception"
      [] OTHER                      -> "Exception"

RECURSIVE IsSubclass(_, _)
IsSubclass(cls, base) ==
    IF cls = base THEN TRUE
    ELSE IF cls = "Exception" THEN FALSE
    ELSE IsSubclass(Parent(cls), base)

\* isinstance(e, base), as an except clause tests it
IsInstance(e, base) == IsSubclass(e.cls, base)

\* str(e)
PyStr(e) == e.msg

CreditText == "credit balance is too low"

\* faults the backend call can raise
BackendFaults ==
    { [cls |-> "BadRequestError",
       msg |-> <<Lit("Error code: 400 - Your "), Lit(CreditText), Lit(" to access the API")>>],
      [cls |-> "BadRequestError",
       msg |-> <<Lit("Error code: 400 - messages: roles must alternate")>>],
      [cls |-> "RateLimitError",
       msg |-> <<Lit("Error code: 429 - rate limit exceeded")>>],
      [cls |-> "InternalServerError",
       msg |-> <<Lit("Error code: 500 - internal server error")>>],
      [cls |-> "APIConnectionError",
       msg |-> <<Lit("Connection error.")>>],
      [cls |-> "Exception",
       msg |-> <<Lit("socket closed")>>] }

\* faults execute_tool can raise
ToolFaults == { [cls |-> "Exception", msg |-> <<Lit("Tool not found")>>] }

\* what evaluating an expression yields: a value, or a raised exception
Return(v) == [kind |-> "return", value |-> v]
Raise(e)  == [kind |-> "raise", value |-> e]
NoResult  == [kind |-> "none", value |-> <<>>]
NoFault   == [cls |-> "none", msg |-> <<>>]

---------------------------------------------------------------------------
(* generate_response: request parameters *)

SYSTEM_PROMPT == <<Lit("SYSTEM_PROMPT")>>

\* conversation_history: None, the empty string, or a non-empty string
NoHistory == [given |-> FALSE, text |-> <<>>]
EmptyHistory == [given |-> TRUE, text |-> <<>>]
Histories ==
    { NoHistory,
      EmptyHistory,
      [given |-> TRUE, text |-> <<Lit("User: hi / Assistant: hello")>>] }

\* the history is compared with None instead of being tested for truth
HistoryTruthy_NotNone(h) == h.given

\* truth value of an Optional[str]
HistoryTruthy(h) == h.given /\ h.text # <<>>

\* tools: None, an empty list, or a list of tool schemas
ToolsArgs == {"None", "[]", "schemas"}

\* truth value of an Optional[List]
ToolsTruthy(t) == t = "schemas"

Queries == { <<Lit("What is machine learning?")>> }

\* the argument combinations generate_response is invoked with: without a tool
\* manager every combination; a tool manager comes with the schemas of its
\* tools (with or without a history) or with an empty tool list
Invocations ==
    { a \in [query : Queries, conversation_history : Histories,
             tools : ToolsArgs, tool_manager : BOOLEAN] :
        a.tool_manager =>
            \/ a.tools = "schemas" /\ a.conversation_history # EmptyHistory
            \/ a.tools = "[]" /\ a.conversation_history = NoHistory }

SystemContent(history) ==
    IF HistoryTruthy(history)
    THEN SYSTEM_PROMPT \o <<Lit("Previous conversation:")>> \o history.text
    ELSE SYSTEM_PROMPT

\* tool_choice is set whether or not tools were passed
BuildApiParams_AlwaysToolChoice(query, history, tools) ==
    [ messages    |-> << [role |-> "user", content |-> query] >>,
      system      |-> SystemContent(history),
      tools       |-> IF ToolsTruthy(tools) THEN tools ELSE "absent",
      tool_choice |-> "auto" ]

\* api_params of generate_response; a key the dict lacks reads "absent"
BuildApiParams(query, history, tools) ==
    [ messages    |-> << [role |-> "user", content |-> query] >>,
      system      |-> SystemContent(history),
      tools       |-> IF ToolsTruthy(tools) THEN tools ELSE "absent",
      tool_choice |-> IF ToolsTruthy(tools) THEN "auto" ELSE "absent" ]

---------------------------------------------------------------------------
(* generate_response: result and except clauses *)

CreditMessage ==
    <<Lit("I'm sorry, but the chatbot is currently unavailable due to API credit exhaustion. Please contact the administrator to resolve this issue.")>>
ConfigPrefix ==
    <<Lit("I encountered an API configuration error. Please contact support with this message: ")>>
RateLimitMessage ==
    <<Lit("I'm receiving too many requests right now. Please wait a moment and try again.")>>
ApiErrorPrefix ==
    <<Lit("I'm experiencing technical difficulties with the AI service. Please try again later. Error: ")>>
UnexpectedPrefix ==
    <<Lit("An unexpected error occurred while processing your request: ")>>

\* response.content[0].text
ReturnText(resp) ==
    IF Len(resp.content) = 0
    THEN Raise([cls |-> "IndexError", msg |-> <<Lit("list index out of range")>>])
    ELSE IF resp.content[1].type # "text"
    THEN Raise([cls |-> "AttributeError",
                msg |-> <<Lit("'ToolUseBlock' object has no attribute 'text'")>>])
    ELSE Return(<<resp.content[1].text>>)

\* the clause for APIError is tried before those of its subclasses
ExceptChain_ApiErrorFirst(e) ==
    IF IsInstance(e, "APIError")
    THEN Return(ApiErrorPrefix \o PyStr(e))
    ELSE IF IsInstance(e, "BadRequestError")
    THEN IF Contains(PyStr(e), CreditText)
         THEN Return(CreditMessage)
         ELSE Return(ConfigPrefix \o PyStr(e))
    ELSE IF IsInstance(e, "RateLimitError")
    THEN Return(RateLimitMessage)
    ELSE Return(UnexpectedPrefix \o PyStr(e))

\* no except clause: the exception leaves generate_response
ExceptChain_Reraise(e) == Raise(e)

\* the except clauses of generate_response, first match wins
ExceptChain(e) ==
    IF IsInstance(e, "BadRequestError")
    THEN IF Contains(PyStr(e), CreditText)
         THEN Return(CreditMessage)
         ELSE Return(ConfigPrefix \o PyStr(e))
    ELSE IF IsInstance(e, "RateLimitError")
    THEN Return(RateLimitMessage)
    ELSE IF IsInstance(e, "APIError")
    THEN Return(ApiErrorPrefix \o PyStr(e))
    ELSE IF IsInstance(e, "Exception")
    THEN Return(UnexpectedPrefix \o PyStr(e))
    ELSE Raise(e)

\* the evaluation happens outside the try block
Guarded_Unprotected(outcome) == outcome

\* the try block of generate_response around an evaluation
Guarded(outcome) ==
    IF outcome.kind = "raise" THEN ExceptChain(outcome.value) ELSE outcome

\* the comparison with "tool_use" always succeeds
StopIsToolUse_Always(resp) == resp.stop_reason \in StopReasons

\* stop_reason == "tool_use"
StopIsToolUse(resp) == resp.stop_reason = "tool_use"

\* the tool manager is not looked at
EntersToolLoop_WithoutManager(resp, tool_manager) == StopIsToolUse(resp)

\* the first response is handed to the tool loop
EntersToolLoop(resp, tool_manager) ==
    StopIsToolUse(resp) /\ tool_manager

---------------------------------------------------------------------------
(* _build_round_system_prompt *)

\* every round but the first is told it is the final opportunity
RoundGuidance_FinalForOthers(r) ==
    IF r = 1
    THEN "This is your first opportunity to use tools. Consider if you need broad or specific information."
    ELSE "This is your final tool call opportunity. Make it count - be specific and targeted based on previous results."

\* round_guidance
RoundGuidance(r) ==
    IF r = 1
    THEN "This is your first opportunity to use tools. Consider if you need broad or specific information."
    ELSE IF r = 2
    THEN "This is your final tool call opportunity. Make it count - be specific and targeted based on previous results."
    ELSE "No more tool calls available. Provide your final answer based on all previous information."

\* the directives of the earlier rounds are kept in front of the new one
BuildRoundSystemPrompt_Accumulating(base_system, r, max) ==
    base_system \o
    (IF r > 1
     THEN <<Lit("Round "), Lit(ToString(r - 1)), Lit("/"), Lit(ToString(max)), Lit(": "),
            Lit(RoundGuidance(r - 1))>>
     ELSE <<>>) \o
    <<Lit("Round "), Lit(ToString(r)), Lit("/"), Lit(ToString(max)), Lit(": "),
      Lit(RoundGuidance(r))>>

\* base_prompt followed by "Round r/max: " and the guidance of the round
BuildRoundSystemPrompt(base_system, r, max) ==
    base_system \o
    <<Lit("Round "), Lit(ToString(r)), Lit("/"), Lit(ToString(max)), Lit(": "),
      Lit(RoundGuidance(r))>>

---------------------------------------------------------------------------
(* _handle_sequential_tool_execution *)

\* the loop without its cap on the rounds
LoopCondition_NoCap(round, resp) == resp.stop_reason = "tool_use"

\* the loop admits one round more than max_rounds
LoopCondition_ThreeRounds(round, resp) ==
    round <= max_rounds + 1 /\ resp.stop_reason = "tool_use"

\* condition of the while loop
LoopCondition(round, resp) ==
    round <= max_rounds /\ StopIsToolUse(resp)

\* the tools are offered after the last round too
ToolsOffered_LastRoundToo(round) == round <= max_rounds

\* the next call offers the tools
ToolsOffered(round) == round < max_rounds

\* the loop appends to the list of base_params itself
CallerMessages_Shared(base_messages, loop_messages) == loop_messages

\* base_params["messages"] once the loop has appended to its own list: the
\* loop works on a copy
CallerMessages(base_messages, loop_messages) == base_messages

\* the text blocks are left out of the assistant message
AssistantMessage_ToolUsesOnly(resp) ==
    [ role    |-> "assistant",
      content |-> SelectSeq(resp.content, LAMBDA b : b.type = "tool_use") ]

\* {"role": "assistant", "content": current_response.content}
AssistantMessage(resp) ==
    [role |-> "assistant", content |-> resp.content]

\* base_params.get("tools", [])
BaseGetTools(base_params) ==
    IF base_params.tools = "absent" THEN "[]" ELSE base_params.tools

\* the round counter is advanced before the prompt of the next call is built
NextParams_AfterIncrement(base_params, msgs, round) ==
    [ messages    |-> msgs,
      system      |-> BuildRoundSystemPrompt(base_params.system, round + 1, max_rounds),
      tools       |-> IF ToolsOffered(round) THEN BaseGetTools(base_params) ELSE "absent",
      tool_choice |-> IF ToolsOffered(round) THEN "auto" ELSE "absent" ]

\* the next call is sent the messages of the current round alone
NextParams_RoundOnly(base_params, msgs, round) ==
    [ messages    |-> SubSeq(msgs, Len(msgs) - 1, Len(msgs)),
      system      |-> BuildRoundSystemPrompt(base_params.system, round, max_rounds),
      tools       |-> IF ToolsOffered(round) THEN BaseGetTools(base_params) ELSE "absent",
      tool_choice |-> IF ToolsOffered(round) THEN "auto" ELSE "absent" ]

\* next_params of the follow-up call of a round
NextParams(base_params, msgs, round) ==
    [ messages    |-> msgs,
      system      |-> BuildRoundSystemPrompt(base_params.system, round, max_rounds),
      tools       |-> IF ToolsOffered(round) THEN BaseGetTools(base_params) ELSE "absent",
      tool_choice |-> IF ToolsOffered(round) THEN "auto" ELSE "absent" ]

\* what execute_tool can do
ToolOutcomes ==
    { Return(<<Lit("[Course A - Lesson 1] content")>>) }
    \cup { Raise(e) : e \in ToolFaults }

\* a tool fault is passed on without the error prefix
ToolResultEntry_RawError(block, outcome) ==
    [ type        |-> "tool_result",
      tool_use_id |-> block.id,
      content     |-> IF outcome.kind = "return"
                      THEN outcome.value
                      ELSE PyStr(outcome.value) ]

\* the tool_result entry of one tool-use block
ToolResultEntry(block, outcome) ==
    [ type        |-> "tool_result",
      tool_use_id |-> block.id,
      content     |-> IF outcome.kind = "return"
                      THEN outcome.value
                      ELSE <<Lit("Tool execution error: ")>> \o PyStr(outcome.value) ]

\* positions of the tool-use blocks the for-loop has not reached yet
PendingToolUses(content, from) ==
    { i \in DOMAIN content : i >= from /\ content[i].type = "tool_use" }

\* the last element is taken first
Min_Largest(S) == CHOOSE x \in S : \A y \in S : x >= y

\* the first of the positions still to be visited
Min(S) == CHOOSE x \in S : \A y \in S : x <= y

\* the reply message is appended even when it holds no result
WithToolResults_Always(msgs, results) ==
    Append(msgs, [role |-> "user", content |-> results])

\* the messages after the round's results were collected
WithToolResults(msgs, results) ==
    IF results # <<>>
    THEN Append(msgs, [role |-> "user", content |-> results])
    ELSE msgs

---------------------------------------------------------------------------
(* _salvage_partial_response *)

InterruptedNote ==
    <<Lit("(Note: Additional information gathering was interrupted due to an error: ")>>
GenericFailurePrefix ==
    <<Lit("I encountered an error while processing your request and was unable to provide a complete response: ")>>

\* the length is taken without trimming
SalvageQualifies_NoStrip(block) ==
    block.type = "text" /\ PyLen(block.text) > SalvageMinLen

\* a trimmed length equal to the threshold is enough
SalvageQualifies_AtLeast(block) ==
    block.type = "text" /\ PyLen(PyStrip(block.text)) >= SalvageMinLen

\* the test a content block passes to be returned
SalvageQualifies(block) ==
    block.type = "text" /\ PyLen(PyStrip(block.text)) > SalvageMinLen

\* the scan of messages i, i-1, ..., 1
RECURSIVE SalvageScan(_, _, _)
SalvageScan(msgs, i, error_msg) ==
    IF i = 0
    THEN GenericFailurePrefix \o error_msg
    ELSE LET message == msgs[i]
             hits == IF message.role = "assistant"
                     THEN { j \in DOMAIN message.content :
                                SalvageQualifies(message.content[j]) }
                     ELSE {}
         IN  IF hits # {}
             THEN <<message.content[Min(hits)].text>> \o InterruptedNote
                      \o error_msg \o <<Lit(")")>>
             ELSE SalvageScan(msgs, i - 1, error_msg)

\* the messages are scanned from the oldest to the newest
SalvagePartialResponse_OldestFirst(msgs, error_msg) ==
    SalvageScan([i \in DOMAIN msgs |-> msgs[Len(msgs) + 1 - i]], Len(msgs), error_msg)

\* for message in reversed(messages)
SalvagePartialResponse(msgs, error_msg) == SalvageScan(msgs, Len(msgs), error_msg)

\* the salvage pass runs in every round
FollowupFault_AlwaysSalvage(round, msgs, e) ==
    [ outcome  |-> Return(SalvagePartialResponse(msgs, PyStr(e))),
      salvaged |-> TRUE ]

\* the fault of the follow-up call is raised out of the tool loop
FollowupFault_Propagate(round, msgs, e) ==
    [ outcome |-> Raise(e), salvaged |-> FALSE ]

\* the except clause around the follow-up call
FollowupFault(round, msgs, e) ==
    IF round = 1
    THEN [ outcome  |-> Return(<<Lit("Error during tool execution: ")>> \o PyStr(e)),
           salvaged |-> FALSE ]
    ELSE [ outcome  |-> Return(SalvagePartialResponse(msgs, PyStr(e))),
           salvaged |-> TRUE ]

---------------------------------------------------------------------------
(* Vector store: SearchResults, course-name resolution, filters, search *)

\* Optional values: Some(v), and None for a string, a number and a text
Some(v)  == [given |-> TRUE, value |-> v]
NoneStr  == [given |-> FALSE, value |-> ""]
NoneInt  == [given |-> FALSE, value |-> 0]
NoneText == [given |-> FALSE, value |-> <<>>]

\* None where a dict may stand
PyNone == [none |-> TRUE]

\* the courses that can be ingested and their lessons
MLCourse   == "Introduction to Machine Learning"
TestCourse == "Test Course"
Courses    == {MLCourse, TestCourse}
LessonsOf(title) == IF title = MLCourse THEN {1, 2} ELSE {1}

\* the chunks of a course: the metadata of a chunk and its document text
ChunksOf(title) ==
    { [course_title |-> title, lesson_number |-> n] : n \in LessonsOf(title) }
Document(chunk) == [content_of |-> <<chunk.course_title, chunk.lesson_number>>]

\* configured number of results of a search
max_results == 5

\* SearchResults(documents, metadata, distances, error)
SearchResults(documents, metadata, distances, error) ==
    [documents |-> documents, metadata |-> metadata, distances |-> distances,
     error |-> error]

\* SearchResults.from_chroma: the lists of the first (only) query text
FromChroma(chroma_results) ==
    SearchResults(chroma_results.documents[1], chroma_results.metadatas[1],
                  chroma_results.distances[1], NoneText)

\* the message is also put among the documents
Empty_WithPlaceholder(error_msg) ==
    SearchResults(<<error_msg>>, <<>>, <<>>, Some(error_msg))

\* SearchResults.empty(error_msg)
Empty(error_msg) == SearchResults(<<>>, <<>>, <<>>, Some(error_msg))

\* SearchResults.is_empty()
IsEmpty(results) == Len(results.documents) = 0

\* the stored title a course name matches exactly, in part or in another
\* case; "" when it matches none
MatchOf(name) ==
    CASE name = "Introduction to Machine Learning" -> MLCourse
      [] name = "Machine Learning"                 -> MLCourse
      [] name = "machine learning"                 -> MLCourse
      [] name = "Test Course"                      -> TestCourse
      [] OTHER                                     -> ""

CourseNames ==
    {"Introduction to Machine Learning", "Machine Learning", "machine learning",
     "Test Course", "Quantum Computing"}

\* the answers the catalog collection can give to a similarity query for one
\* result: nothing when it is empty, else its nearest title, which is the
\* title the name matches when that title is stored
CatalogQuery(catalog, name) ==
    IF catalog = {}
    THEN { <<>> }
    ELSE IF MatchOf(name) \in catalog
    THEN { <<MatchOf(name)>> }
    ELSE { <<title>> : title \in catalog }

\* _resolve_course_name: the title of the nearest neighbour, any hit accepted
ResolveCourseName(hits) ==
    IF hits = <<>> THEN NoneStr ELSE Some(hits[1])

CoursePredicate(course_title) == [course_title |-> course_title]
LessonPredicate(lesson_number) == [lesson_number |-> lesson_number]

\* with both values given only the course predicate is returned
BuildFilter_CourseWins(course_title, lesson_number) ==
    IF course_title.given
    THEN CoursePredicate(course_title.value)
    ELSE IF lesson_number.given
    THEN LessonPredicate(lesson_number.value)
    ELSE PyNone

\* the lesson number is left out of the filter
BuildFilter_NoLesson(course_title, lesson_number) ==
    IF course_title.given
    THEN CoursePredicate(course_title.value)
    ELSE PyNone

\* _build_filter
BuildFilter(course_title, lesson_number) ==
    IF course_title.given /\ lesson_number.given
    THEN [and |-> << CoursePredicate(course_title.value),
                     LessonPredicate(lesson_number.value) >>]
    ELSE IF course_title.given
    THEN CoursePredicate(course_title.value)
    ELSE IF lesson_number.given
    THEN LessonPredicate(lesson_number.value)
    ELSE PyNone

\* a chunk's metadata satisfies a where-filter of the content collection
RECURSIVE Satisfies(_, _)
Satisfies(chunk, where) ==
    IF "none" \in DOMAIN where
    THEN TRUE
    ELSE IF "and" \in DOMAIN where
    THEN \A i \in DOMAIN where.and : Satisfies(chunk, where.and[i])
    ELSE IF "course_title" \in DOMAIN where
    THEN chunk.course_title = where.course_title
    ELSE chunk.lesson_number = where.lesson_number

SearchQueries == {"machine learning", "supervised learning"}

\* all chunks by ascending embedding distance from a query text
EmbeddingOrder(query) ==
    IF query = "machine learning"
    THEN << [course_title |-> MLCourse, lesson_number |-> 1],
            [course_title |-> MLCourse, lesson_number |-> 2],
            [course_title |-> TestCourse, lesson_number |-> 1] >>
    ELSE << [course_title |-> MLCourse, lesson_number |-> 2],
            [course_title |-> TestCourse, lesson_number |-> 1],
            [course_title |-> MLCourse, lesson_number |-> 1] >>

\* the answer of the content collection to a query: the n_results nearest
\* stored chunks that satisfy the filter, as parallel per-query lists
ContentQuery(content, q) ==
    LET Eligible(chunk) == chunk \in content /\ Satisfies(chunk, q.where)
        ranked == SelectSeq(EmbeddingOrder(q.query_texts), Eligible)
        hits   == SubSeq(ranked, 1, Min({q.n_results, Len(ranked)}))
    IN  [ documents |-> << [i \in DOMAIN hits |-> Document(hits[i])] >>,
          metadatas |-> << hits >>,
          distances |-> << [i \in DOMAIN hits |-> i] >> ]

ContentFaults ==
    { NoFault, [cls |-> "Exception", msg |-> <<Lit("Database error")>>] }

\* the error of a search whose course name resolves to nothing
NoCourseError(course_name) ==
    <<Lit("No course found matching"), Lit(" '"), Lit(course_name), Lit("'")>>

\* the resolution failure is not noticed
Unresolved_Never(course_name, course_title) == FALSE

\* a course name was given and resolved to nothing
Unresolved(course_name, course_title) ==
    course_name.given /\ ~course_title.given

\* the fault of the content query leaves search
QueryFault_Reraise(e) == Raise(e)

\* the except clause around the content query
QueryFault(e) == Return(Empty(<<Lit("Search error: ")>> \o PyStr(e)))

\* VectorStore.search: its outcome and the queries it sent to the content
\* collection; catalog_hits is the catalog's answer to the resolution query,
\* fault the fault of the content query if any
Search(content, query, course_name, lesson_number, limit, catalog_hits, fault) ==
    LET course_title == IF course_name.given
                        THEN ResolveCourseName(catalog_hits)
                        ELSE NoneStr
        q == [ query_texts |-> query,
               n_results   |-> IF limit.given THEN limit.value ELSE max_results,
               where       |-> BuildFilter(course_title, lesson_number) ]
    IN  IF Unresolved(course_name, course_title)
        THEN [ outcome  |-> Return(Empty(NoCourseError(course_name.value))),
               resolved |-> course_title,
               queries  |-> <<>> ]
        ELSE [ outcome  |-> IF fault # NoFault
                            THEN QueryFault(fault)
                            ELSE Return(FromChroma(ContentQuery(content, q))),
               resolved |-> course_title,
               queries  |-> <<q>> ]

---------------------------------------------------------------------------
(* CourseSearchTool.execute and its last_sources *)

\* the bracketed header of a matched chunk
Header(meta) ==
    << Lit("["), Lit(meta.course_title), Lit(", Lesson "),
       Lit(ToString(meta.lesson_number)), Lit("]") >>

\* get_lesson_link: a catalog lookup, None when course or lesson is absent
LessonLink(catalog, course_title, lesson_number) ==
    IF course_title \in catalog /\ lesson_number \in LessonsOf(course_title)
    THEN Some(<< Lit("lesson_link"), Lit(course_title),
                 Lit(ToString(lesson_number)) >>)
    ELSE NoneText

\* the source citations of the matched chunks, in the order of the matches
SourcesOf(catalog, results) ==
    [ i \in DOMAIN results.metadata |->
        [ text |-> Header(results.metadata[i]),
          url  |-> LessonLink(catalog, results.metadata[i].course_title,
                              results.metadata[i].lesson_number) ] ]

\* header and text of the matches from the i-th on
RECURSIVE FormatHits(_, _)
FormatHits(results, i) ==
    IF i > Len(results.documents)
    THEN <<>>
    ELSE Header(results.metadata[i]) \o <<results.documents[i]>>
             \o FormatHits(results, i + 1)

\* the message of a search without matches, naming the filters in effect
NoContentMessage(course_name, lesson_number) ==
    <<Lit("No relevant content found")>>
        \o (IF course_name.given
            THEN <<Lit(" in course '"), Lit(course_name.value), Lit("'")>>
            ELSE <<>>)
        \o (IF lesson_number.given
            THEN <<Lit(" in lesson "), Lit(ToString(lesson_number.value))>>
            ELSE <<>>)

\* the new sources are added to the ones held
StoreSources_Extend(prior, sources) == prior \o sources

\* last_sources after the results were formatted: overwritten
StoreSources(prior, sources) == sources

\* emptiness is tested before the error
Execute_EmptyBeforeError(catalog, results, course_name, lesson_number, prior) ==
    IF IsEmpty(results)
    THEN [ text |-> NoContentMessage(course_name, lesson_number),
           last_sources |-> prior ]
    ELSE IF results.error.given
    THEN [ text |-> results.error.value, last_sources |-> prior ]
    ELSE [ text |-> FormatHits(results, 1),
           last_sources |-> StoreSources(prior, SourcesOf(catalog, results)) ]

\* CourseSearchTool.execute on the results of the store's search: the string
\* returned and the last_sources left behind
Execute(catalog, results, course_name, lesson_number, prior) ==
    IF results.error.given
    THEN [ text |-> results.error.value, last_sources |-> prior ]
    ELSE IF IsEmpty(results)
    THEN [ text |-> NoContentMessage(course_name, lesson_number),
           last_sources |-> prior ]
    ELSE [ text |-> FormatHits(results, 1),
           last_sources |-> StoreSources(prior, SourcesOf(catalog, results)) ]

---------------------------------------------------------------------------
(* Session history *)

\* configured history depth
max_history == 2

SessionIds == {"session-1", "session-2"}

\* the exchange is appended and nothing is dropped
AddExchange_NoTrim(history, user_message, assistant_message) ==
    Append(history, [query |-> user_message, response |-> assistant_message])

\* add_exchange: the exchange is appended, the last max_history are kept
AddExchange(history, user_message, assistant_message) ==
    LET all == Append(history, [query |-> user_message,
                                response |-> assistant_message])
    IN  IF Len(all) > max_history
        THEN SubSeq(all, Len(all) - max_history + 1, Len(all))
        ELSE all

\* the text of the exchanges from the i-th on
RECURSIVE FormatExchanges(_, _)
FormatExchanges(history, i) ==
    IF i > Len(history)
    THEN <<>>
    ELSE << Lit("User: "), Lit(history[i].query),
            Lit("Assistant: "), Lit(history[i].response) >>
             \o FormatExchanges(history, i + 1)

\* get_conversation_history: the formatted exchanges, None without any
GetConversationHistory(history) ==
    IF history = <<>>
    THEN NoHistory
    ELSE [given |-> TRUE, text |-> FormatExchanges(history, 1)]

---------------------------------------------------------------------------
(* HTTP handlers of the test application: /api/query and /api/new-session *)

\* truth value of an Optional[str]
StrTruthy(s) == s.given /\ s.value # ""

\* a call on the RAG system or its session manager, with its outcome
MockCall(name, call_args, outcome) ==
    [name |-> name, args |-> call_args, outcome |-> outcome]

\* a response of the handler's response model
HttpOk(body) == [status_code |-> 200, body |-> body]

\* HTTPException(status_code=500, detail=str(e))
HttpError(e) == [status_code |-> 500, body |-> [detail |-> PyStr(e)]]

\* a session is created for every request
NeedsSession_Always(session_id) == TRUE

\* if not session_id
NeedsSession(session_id) == ~StrTruthy(session_id)

\* formatted_sources: a dict is kept, anything else becomes {"text": str(source)}
FormatSources(sources) ==
    [ i \in DOMAIN sources |->
        IF sources[i].type = "dict"
        THEN sources[i]
        ELSE [type |-> "dict", text |-> sources[i].text, url |-> NoneStr] ]

\* query_documents: the calls it makes and the response it gives; created and
\* answered are the outcomes of create_session and of the RAG query
QueryDocuments(request, created, answered) ==
    LET create  == IF NeedsSession(request.session_id)
                   THEN << MockCall("create_session", <<>>, created) >>
                   ELSE <<>>
        session_id == IF NeedsSession(request.session_id)
                      THEN created.value
                      ELSE request.session_id.value
        query   == MockCall("query", <<request.query, session_id>>, answered)
    IN  IF create # <<>> /\ created.kind = "raise"
        THEN [ calls |-> create, response |-> HttpError(created.value) ]
        ELSE IF answered.kind = "raise"
        THEN [ calls |-> create \o <<query>>,
               response |-> HttpError(answered.value) ]
        ELSE [ calls |-> create \o <<query>>,
               response |-> HttpOk([ answer     |-> answered.value.answer,
                                     sources    |-> FormatSources(answered.value.sources),
                                     session_id |-> session_id ]) ]

\* the new session is created before the old one is cleared
InOrder_CreateFirst(clear, create) == create \o clear

\* the calls of create_new_session in the order of its statements
InOrder(clear, create) == clear \o create

\* create_new_session: the calls it makes and the response it gives; cleared
\* and created are the outcomes of clear_session and of create_session
CreateNewSession(request, cleared, created) ==
    LET clear  == IF StrTruthy(request.old_session_id)
                  THEN << MockCall("clear_session",
                                   <<request.old_session_id.value>>, cleared) >>
                  ELSE <<>>
        create == << MockCall("create_session", <<>>, created) >>
    IN  IF clear # <<>> /\ cleared.kind = "raise"
        THEN [ calls |-> clear, response |-> HttpError(cleared.value) ]
        ELSE IF created.kind = "raise"
        THEN [ calls |-> InOrder(clear, create),
               response |-> HttpError(created.value) ]
        ELSE [ calls |-> InOrder(clear, create),
               response |-> HttpOk([session_id |-> created.value]) ]

\* the values the requests and the mocked collaborators are drawn from
SessionIdArgs ==
    { NoneStr, Some(""), Some("test-session-123"), Some("old-session-456") }
MockFault == [cls |-> "Exception", msg |-> <<Lit("RAG system error")>>]
CreateOutcomes == { Return("test-session-123"), Raise(MockFault) }
ClearOutcomes == { Return("None"), Raise(MockFault) }
SourceLists ==
    { <<>>,
      << [type |-> "dict", text |-> "Machine learning is a subset of AI",
          url |-> Some("https://example.com/ml")] >>,
      << [type |-> "str", text |-> "Machine learning is a subset of AI",
          url |-> NoneStr] >> }
QueryOutcomes ==
    { Return([answer |-> "This is a test answer about machine learning.",
              sources |-> s]) : s \in SourceLists } \cup { Raise(MockFault) }

---------------------------------------------------------------------------
(* State machine *)

\* self.base_params as the constructor builds it
GeneratorBaseParams ==
    [model |-> "claude-sonnet-4-20250514", temperature |-> 0, max_tokens |-> 800]

\* no invocation has returned yet
NoEarlier == [returned |-> FALSE, current_round |-> 0, messages |-> 0]

NoArgs ==
    [query |-> <<>>, conversation_history |-> NoHistory, tools |-> "None",
     tool_manager |-> FALSE]
NoParams ==
    [messages |-> <<>>, system |-> <<>>, tools |-> "absent", tool_choice |-> "absent"]

\* the record of a call on the store or the search tool, before any call
NoOp ==
    [ op |-> "none", query |-> "", course_name |-> NoneStr,
      lesson_number |-> NoneInt, limit |-> NoneInt, catalog_hits |-> <<>>,
      fault |-> NoFault, outcome |-> NoResult, resolved |-> NoneStr,
      queries |-> <<>>, filter |-> PyNone, text |-> <<>>,
      prior_sources |-> <<>> ]

Init ==
    /\ pc = "idle"
    /\ args = NoArgs
    /\ api_params = NoParams
    /\ messages = <<>>
    /\ current_response = NoResponse
    /\ current_round = 0
    /\ tool_results = <<>>
    /\ idx = 0
    /\ calls = <<>>
    /\ responses = <<>>
    /\ dispatched = <<>>
    /\ backend_fault = NoFault
    /\ salvage_ran = FALSE
    /\ result = NoResult
    /\ course_catalog = {}
    /\ course_content = {}
    /\ last_sources = <<>>
    /\ last_op = NoOp
    /\ sessions = [id \in SessionIds |-> <<>>]
    /\ asked = [id \in SessionIds |-> <<>>]
    /\ handled = <<>>
    /\ round_prompts = <<>>
    /\ self_base_params = GeneratorBaseParams
    /\ earlier = NoEarlier

\* generate_response up to its backend call
GenerateResponse(query, history, tools, tool_manager) ==
    /\ pc = "idle"
    /\ args' = [query |-> query, conversation_history |-> history,
                tools |-> tools, tool_manager |-> tool_manager]
    /\ api_params' = BuildApiParams(query, history, tools)
    /\ calls' = <<api_params'>>
    /\ responses' = <<>>
    /\ messages' = <<>>
    /\ current_response' = NoResponse
    /\ current_round' = 0
    /\ tool_results' = <<>>
    /\ idx' = 0
    /\ dispatched' = <<>>
    /\ backend_fault' = NoFault
    /\ salvage_ran' = FALSE
    /\ result' = NoResult
    /\ pc' = "await_initial"

\* return current_response.content[0].text, seen from generate_response
Finish(resp) ==
    /\ result' = Guarded(ReturnText(resp))
    /\ pc' = "done"

\* top of the while loop: a round starts, or the loop is left
LoopHead(round, resp, msgs) ==
    IF LoopCondition(round, resp)
    THEN /\ messages' = Append(msgs, AssistantMessage(resp))
         /\ tool_results' = <<>>
         /\ idx' = 1
         /\ pc' = "exec_tools"
         /\ UNCHANGED result
    ELSE /\ Finish(resp)
         /\ messages' = msgs
         /\ UNCHANGED <<tool_results, idx>>

\* the initial backend call returns
InitialReturns(resp) ==
    /\ pc = "await_initial"
    /\ current_response' = resp
    /\ responses' = Append(responses, resp)
    /\ IF EntersToolLoop(resp, args.tool_manager)
       THEN /\ current_round' = 1
            /\ LoopHead(1, resp, api_params.messages)
            /\ api_params' = [api_params EXCEPT
                                 !.messages = CallerMessages(@, messages')]
       ELSE /\ Finish(resp)
            /\ UNCHANGED <<current_round, messages, tool_results, idx, api_params>>
    /\ UNCHANGED <<args, calls, dispatched, backend_fault, salvage_ran>>

\* the initial backend call raises
InitialRaises(e) ==
    /\ pc = "await_initial"
    /\ backend_fault' = e
    /\ result' = ExceptChain(e)
    /\ pc' = "done"
    /\ UNCHANGED <<args, api_params, messages, current_response, current_round,
                   tool_results, idx, calls, responses, dispatched, salvage_ran>>

\* the for-loop reaches its next tool-use block and dispatches it
ExecuteTool(outcome) ==
    /\ pc = "exec_tools"
    /\ PendingToolUses(current_response.content, idx) # {}
    /\ LET i == Min(PendingToolUses(current_response.content, idx))
           block == current_response.content[i]
       IN  /\ dispatched' = Append(dispatched, [round |-> current_round, block |-> block,
                                                outcome |-> outcome])
           /\ tool_results' = Append(tool_results, ToolResultEntry(block, outcome))
           /\ idx' = i + 1
    /\ UNCHANGED <<pc, args, api_params, messages, current_response, current_round,
                   calls, responses, backend_fault, salvage_ran, result>>

\* the for-loop is over: the results are appended and the next call is issued
FollowupCall ==
    /\ pc = "exec_tools"
    /\ PendingToolUses(current_response.content, idx) = {}
    /\ messages' = WithToolResults(messages, tool_results)
    /\ api_params' = [api_params EXCEPT !.messages = CallerMessages(@, messages')]
    /\ calls' = Append(calls, NextParams(api_params', messages', current_round))
    /\ idx' = Len(current_response.content) + 1
    /\ pc' = "await_followup"
    /\ UNCHANGED <<args, current_response, current_round, tool_results,
                   responses, dispatched, backend_fault, salvage_ran, result>>

\* the follow-up call returns
FollowupReturns(resp) ==
    /\ pc = "await_followup"
    /\ current_response' = resp
    /\ responses' = Append(responses, resp)
    /\ current_round' = current_round + 1
    /\ IF ~StopIsToolUse(resp)
       THEN /\ Finish(resp)
            /\ UNCHANGED <<messages, tool_results, idx, api_params>>
       ELSE /\ LoopHead(current_round + 1, resp, messages)
            /\ api_params' = [api_params EXCEPT
                                 !.messages = CallerMessages(@, messages')]
    /\ UNCHANGED <<args, calls, dispatched, backend_fault, salvage_ran>>

\* the follow-up call raises
FollowupRaises(e) ==
    /\ pc = "await_followup"
    /\ backend_fault' = e
    /\ LET f == FollowupFault(current_round, messages, e)
       IN  /\ result' = Guarded(f.outcome)
           /\ salvage_ran' = f.salvaged
    /\ pc' = "done"
    /\ UNCHANGED <<args, api_params, messages, current_response, current_round,
                   tool_results, idx, calls, responses, dispatched>>

Next ==
    \/ /\ pc = "idle"
       /\ \E a \in Invocations :
              GenerateResponse(a.query, a.conversation_history, a.tools, a.tool_manager)
       /\ UNCHANGED <<searchVars, sessionVars, apiVars, promptVars, generatorVars>>
    \/ /\ pc = "await_initial"
       /\ \E resp \in Responses(1) : InitialReturns(resp)
       /\ UNCHANGED <<searchVars, sessionVars, apiVars, promptVars, generatorVars>>
    \/ /\ pc = "await_initial"
       /\ \E e \in BackendFaults : InitialRaises(e)
       /\ UNCHANGED <<searchVars, sessionVars, apiVars, promptVars, generatorVars>>
    \/ /\ pc = "exec_tools"
       /\ \E o \in ToolOutcomes : ExecuteTool(o)
       /\ UNCHANGED <<searchVars, sessionVars, apiVars, promptVars, generatorVars>>
    \/ /\ FollowupCall
       /\ UNCHANGED <<searchVars, sessionVars, apiVars, promptVars, generatorVars>>
    \/ /\ pc = "await_followup"
       /\ \E resp \in Responses(Len(calls)) : FollowupReturns(resp)
       /\ UNCHANGED <<searchVars, sessionVars, apiVars, promptVars, generatorVars>>
    \/ /\ pc = "await_followup"
       /\ \E e \in BackendFaults : FollowupRaises(e)
       /\ UNCHANGED <<searchVars, sessionVars, apiVars, promptVars, generatorVars>>

Spec == Init /\ [][Next]_vars

\* the invocations that can enter the tool loop: those with a tool manager
ToolInvocations == { a \in Invocations : a.tool_manager }

\* generate_response invoked with a tool manager
ToolLoopNext ==
    \/ /\ pc = "idle"
       /\ \E a \in ToolInvocations :
              GenerateResponse(a.query, a.conversation_history, a.tools, a.tool_manager)
       /\ UNCHANGED <<searchVars, sessionVars, apiVars, promptVars, generatorVars>>
    \/ /\ pc = "await_initial"
       /\ \E resp \in Responses(1) : InitialReturns(resp)
       /\ UNCHANGED <<searchVars, sessionVars, apiVars, promptVars, generatorVars>>
    \/ /\ pc = "await_initial"
       /\ \E e \in BackendFaults : InitialRaises(e)
       /\ UNCHANGED <<searchVars, sessionVars, apiVars, promptVars, generatorVars>>
    \/ /\ pc = "exec_tools"
       /\ \E o \in ToolOutcomes : ExecuteTool(o)
       /\ UNCHANGED <<searchVars, sessionVars, apiVars, promptVars, generatorVars>>
    \/ /\ FollowupCall
       /\ UNCHANGED <<searchVars, sessionVars, apiVars, promptVars, generatorVars>>
    \/ /\ pc = "await_followup"
       /\ \E resp \in Responses(Len(calls)) : FollowupReturns(resp)
       /\ UNCHANGED <<searchVars, sessionVars, apiVars, promptVars, generatorVars>>
    \/ /\ pc = "await_followup"
       /\ \E e \in BackendFaults : FollowupRaises(e)
       /\ UNCHANGED <<searchVars, sessionVars, apiVars, promptVars, generatorVars>>

ToolLoopSpec == Init /\ [][ToolLoopNext]_vars

\* backend responses of at most MaxStepBlocks blocks whose texts carry no
\* surrounding whitespace
PlainResponses(k) ==
    { r \in Responses(k) :
        /\ Len(r.content) <= MaxStepBlocks
        /\ \A i \in DOMAIN r.content :
               r.content[i].type = "text" => r.content[i].text.lead = 0 }

\* generate_response has returned: its locals are gone with its frame, the
\* generator object stays and can be invoked once more
ReturnToCaller ==
    /\ pc = "done"
    /\ ~earlier.returned
    /\ earlier' = [returned |-> TRUE, current_round |-> current_round,
                   messages |-> Len(messages)]
    /\ pc' = "idle"
    /\ args' = NoArgs
    /\ api_params' = NoParams
    /\ messages' = <<>>
    /\ current_response' = NoResponse
    /\ current_round' = 0
    /\ tool_results' = <<>>
    /\ idx' = 0
    /\ calls' = <<>>
    /\ responses' = <<>>
    /\ dispatched' = <<>>
    /\ backend_fault' = NoFault
    /\ salvage_ran' = FALSE
    /\ result' = NoResult
    /\ UNCHANGED self_base_params

\* a step of a running invocation: the backend answers or raises, a tool is
\* executed, the next call is issued
Step ==
    \/ \E resp \in PlainResponses(1) : InitialReturns(resp)
    \/ \E e \in BackendFaults : InitialRaises(e)
    \/ \E o \in ToolOutcomes : ExecuteTool(o)
    \/ /\ Len(calls) < MaxCalls
       /\ FollowupCall
    \/ /\ pc = "await_followup"
       /\ \E resp \in PlainResponses(Len(calls)) : FollowupReturns(resp)
    \/ \E e \in BackendFaults : FollowupRaises(e)

\* two invocations of generate_response on one generator object
RepeatNext ==
    \/ /\ pc = "idle"
       /\ \E a \in ToolInvocations :
              GenerateResponse(a.query, a.conversation_history, a.tools, a.tool_manager)
       /\ UNCHANGED <<searchVars, sessionVars, apiVars, promptVars, generatorVars>>
    \/ /\ Step
       /\ UNCHANGED <<searchVars, sessionVars, apiVars, promptVars, generatorVars>>
    \/ /\ ReturnToCaller
       /\ UNCHANGED <<searchVars, sessionVars, apiVars, promptVars>>

RepeatSpec == Init /\ [][RepeatNext]_vars

\* one invocation, followed from its call to its return
InvocationNext ==
    \/ /\ pc = "idle"
       /\ \E a \in ToolInvocations :
              GenerateResponse(a.query, a.conversation_history, a.tools, a.tool_manager)
       /\ UNCHANGED <<searchVars, sessionVars, apiVars, promptVars, generatorVars>>
    \/ /\ Step
       /\ UNCHANGED <<searchVars, sessionVars, apiVars, promptVars, generatorVars>>

\* every backend call and every tool execution returns or raises, and the
\* generator goes on after it
FairInvocationSpec == Init /\ [][InvocationNext]_vars /\ WF_genVars(Step)

---------------------------------------------------------------------------
(* Vector store and search tool: state machine *)

\* a course is ingested: its catalog entry and its chunks are stored
AddCourse(title) ==
    /\ title \notin course_catalog
    /\ course_catalog' = course_catalog \cup {title}
    /\ course_content' = course_content \cup ChunksOf(title)
    /\ last_op' = [NoOp EXCEPT !.op = "add_course"]
    /\ UNCHANGED last_sources

\* clear_all_data: both collections are deleted and recreated
ClearAllData ==
    /\ course_catalog' = {}
    /\ course_content' = {}
    /\ last_op' = [NoOp EXCEPT !.op = "clear_all_data"]
    /\ UNCHANGED last_sources

\* the answers of the catalog to the resolution query of a call
CatalogAnswers(course_name) ==
    IF course_name.given
    THEN CatalogQuery(course_catalog, course_name.value)
    ELSE { <<>> }

\* a call of _resolve_course_name
ResolveCourseNameCall(course_name) ==
    /\ \E hits \in CatalogAnswers(Some(course_name)) :
          last_op' = [NoOp EXCEPT !.op = "resolve",
                                  !.course_name = Some(course_name),
                                  !.catalog_hits = hits,
                                  !.resolved = ResolveCourseName(hits)]
    /\ UNCHANGED <<course_catalog, course_content, last_sources>>

\* a call of _build_filter
BuildFilterCall(course_title, lesson_number) ==
    /\ last_op' = [NoOp EXCEPT !.op = "build_filter",
                               !.course_name = course_title,
                               !.lesson_number = lesson_number,
                               !.filter = BuildFilter(course_title, lesson_number)]
    /\ UNCHANGED <<course_catalog, course_content, last_sources>>

\* a call of VectorStore.search
SearchCall(query, course_name, lesson_number, limit, fault) ==
    /\ \E hits \in CatalogAnswers(course_name) :
          LET s == Search(course_content, query, course_name, lesson_number,
                          limit, hits, fault)
          IN  last_op' = [NoOp EXCEPT !.op = "search",
                                      !.query = query,
                                      !.course_name = course_name,
                                      !.lesson_number = lesson_number,
                                      !.limit = limit,
                                      !.catalog_hits = hits,
                                      !.fault = IF s.queries = <<>> THEN NoFault
                                                ELSE fault,
                                      !.outcome = s.outcome,
                                      !.resolved = s.resolved,
                                      !.queries = s.queries]
    /\ UNCHANGED <<course_catalog, course_content, last_sources>>

\* a call of CourseSearchTool.execute
ExecuteCall(query, course_name, lesson_number, fault) ==
    /\ \E hits \in CatalogAnswers(course_name) :
          LET s == Search(course_content, query, course_name, lesson_number,
                          NoneInt, hits, fault)
              call == [NoOp EXCEPT !.op = "execute",
                                   !.query = query,
                                   !.course_name = course_name,
                                   !.lesson_number = lesson_number,
                                   !.catalog_hits = hits,
                                   !.fault = IF s.queries = <<>> THEN NoFault
                                             ELSE fault,
                                   !.outcome = s.outcome,
                                   !.resolved = s.resolved,
                                   !.queries = s.queries,
                                   !.prior_sources = last_sources]
          IN  IF s.outcome.kind = "raise"
              THEN /\ last_op' = call
                   /\ UNCHANGED last_sources
              ELSE LET x == Execute(course_catalog, s.outcome.value, course_name,
                                    lesson_number, last_sources)
                   IN  /\ last_op' = [call EXCEPT !.text = x.text]
                       /\ last_sources' = x.last_sources
    /\ UNCHANGED <<course_catalog, course_content>>

\* reset_sources: the caller drains the sources after a generation cycle
ResetSources ==
    /\ last_sources' = <<>>
    /\ last_op' = [NoOp EXCEPT !.op = "reset_sources"]
    /\ UNCHANGED <<course_catalog, course_content>>

OptCourseNames == {NoneStr} \cup { Some(name) : name \in CourseNames }
OptCourseTitles == {NoneStr} \cup { Some(title) : title \in Courses }
OptLessons == {NoneInt, Some(1), Some(2)}
OptLimits == {NoneInt, Some(1)}

\* the course names the search and execute calls are made with
SearchedNames == {NoneStr, Some("Machine Learning"), Some("Quantum Computing")}

SearchNext ==
    \/ /\ \E title \in Courses : AddCourse(title)
       /\ UNCHANGED <<genVars, sessionVars, apiVars, promptVars, generatorVars>>
    \/ /\ ClearAllData
       /\ UNCHANGED <<genVars, sessionVars, apiVars, promptVars, generatorVars>>
    \/ /\ \E name \in CourseNames : ResolveCourseNameCall(name)
       /\ UNCHANGED <<genVars, sessionVars, apiVars, promptVars, generatorVars>>
    \/ /\ \E title \in OptCourseTitles, n \in OptLessons : BuildFilterCall(title, n)
       /\ UNCHANGED <<genVars, sessionVars, apiVars, promptVars, generatorVars>>
    \/ /\ \E query \in SearchQueries, name \in SearchedNames, n \in OptLessons,
            limit \in OptLimits, fault \in ContentFaults :
              SearchCall(query, name, n, limit, fault)
       /\ UNCHANGED <<genVars, sessionVars, apiVars, promptVars, generatorVars>>
    \/ /\ \E query \in SearchQueries, name \in SearchedNames, n \in OptLessons,
            fault \in ContentFaults :
              ExecuteCall(query, name, n, fault)
       /\ UNCHANGED <<genVars, sessionVars, apiVars, promptVars, generatorVars>>
    \/ /\ ResetSources
       /\ UNCHANGED <<genVars, sessionVars, apiVars, promptVars, generatorVars>>

SearchSpec == Init /\ [][SearchNext]_vars

---------------------------------------------------------------------------
(* Session history: state machine *)

UserQueries == {"Query 0", "Query 1"}
Answers == {"Response"}

\* RAG query on a session: the answer is generated, the exchange recorded
Query(session_id, query, response) ==
    /\ Len(asked[session_id]) < MaxAsked
    /\ sessions' = [sessions EXCEPT
                       ![session_id] = AddExchange(@, query, response)]
    /\ asked' = [asked EXCEPT
                    ![session_id] = Append(@, [query |-> query,
                                               response |-> response])]

\* clear_session: the history of the session is dropped
ClearSession(session_id) ==
    /\ sessions' = [sessions EXCEPT ![session_id] = <<>>]
    /\ asked' = [asked EXCEPT ![session_id] = <<>>]

SessionNext ==
    \/ /\ \E id \in SessionIds, query \in UserQueries, response \in Answers :
              Query(id, query, response)
       /\ UNCHANGED <<genVars, searchVars, apiVars, promptVars, generatorVars>>
    \/ /\ \E id \in SessionIds : ClearSession(id)
       /\ UNCHANGED <<genVars, searchVars, apiVars, promptVars, generatorVars>>

SessionSpec == Init /\ [][SessionNext]_vars

---------------------------------------------------------------------------
(* HTTP handlers: state machine *)

\* POST /api/query
PostQuery(session_id, created, answered) ==
    /\ Len(handled) < MaxRequests
    /\ LET request == [query |-> "test query", session_id |-> session_id]
           h == QueryDocuments(request, created, answered)
       IN  handled' = Append(handled, [ endpoint |-> "/api/query",
                                        request  |-> request,
                                        calls    |-> h.calls,
                                        response |-> h.response ])

\* POST /api/new-session
PostNewSession(old_session_id, cleared, created) ==
    /\ Len(handled) < MaxRequests
    /\ LET request == [old_session_id |-> old_session_id]
           h == CreateNewSession(request, cleared, created)
       IN  handled' = Append(handled, [ endpoint |-> "/api/new-session",
                                        request  |-> request,
                                        calls    |-> h.calls,
                                        response |-> h.response ])

ApiNext ==
    \/ /\ \E id \in SessionIdArgs, created \in CreateOutcomes,
            answered \in QueryOutcomes : PostQuery(id, created, answered)
       /\ UNCHANGED <<genVars, searchVars, sessionVars, promptVars, generatorVars>>
    \/ /\ \E id \in SessionIdArgs, cleared \in ClearOutcomes,
            created \in CreateOutcomes : PostNewSession(id, cleared, created)
       /\ UNCHANGED <<genVars, searchVars, sessionVars, promptVars, generatorVars>>

ApiSpec == Init /\ [][ApiNext]_vars

---------------------------------------------------------------------------
(* _build_round_system_prompt applied to any round: state machine *)

\* the system contents the prompt is built from
BaseSystems ==
    { SystemContent(history) : history \in Histories }
    \cup { <<Lit("Base system prompt")>> }

\* a call of _build_round_system_prompt
BuildRoundSystemPromptCall(base_system, round, max) ==
    /\ Len(round_prompts) < MaxPromptCalls
    /\ round_prompts' =
          Append(round_prompts,
                 [ base_prompt   |-> base_system,
                   current_round |-> round,
                   max_rounds    |-> max,
                   prompt        |-> BuildRoundSystemPrompt(base_system, round, max) ])

PromptNext ==
    /\ \E base_system \in BaseSystems, round \in 0..MaxRoundArg, max \in 1..MaxRoundArg :
          BuildRoundSystemPromptCall(base_system, round, max)
    /\ UNCHANGED <<genVars, searchVars, sessionVars, apiVars, generatorVars>>

PromptSpec == Init /\ [][PromptNext]_vars

---------------------------------------------------------------------------
(* Properties *)

Done == pc = "done"

\* the first content block of resp is a text block
FirstBlockIsText(resp) ==
    Len(resp.content) > 0 /\ resp.content[1].type = "text"

\* C1: once the first response requests tool use at most 2 further backend
\* calls are issued, 3 calls per generate_response in all, also when the
\* response to the second further call has stop_reason "tool_use" again.
C1_AtMostTwoFurtherCalls ==
    /\ Len(calls) <= 3
    /\ Len(responses) <= Len(calls)
    /\ (Len(responses) = 3 /\ responses[3].stop_reason = "tool_use") => Done

\* a run that ended after the second further call was answered "tool_use"
C1_Witness ==
    /\ Done
    /\ Len(calls) = 3
    /\ Len(responses) = 3
    /\ responses[1].stop_reason = "tool_use"
    /\ responses[3].stop_reason = "tool_use"

\* C2: the follow-up call after round 1 carries the tools with tool_choice
\* auto (the schemas of the initial call when schemas were supplied); the
\* follow-up call after round 2 carries neither tools nor tool_choice.
C2_ToolsOnlyBeforeLastRound ==
    /\ Len(calls) >= 2 =>
          /\ calls[2].tools # "absent"
          /\ calls[2].tool_choice = "auto"
          /\ (args.tools = "schemas" => calls[2].tools = calls[1].tools)
    /\ Len(calls) >= 3 =>
          /\ calls[3].tools = "absent"
          /\ calls[3].tool_choice = "absent"

\* both follow-up calls were issued for an invocation that supplied schemas
C2_Witness ==
    /\ Len(calls) = 3
    /\ args.tools = "schemas"
    /\ calls[1].tools = "schemas"

\* C3: when the response to the first follow-up call has a stop_reason other
\* than "tool_use", the run is over: two backend calls in all, no tool of a
\* second round dispatched, and the text of that response returned.
C3_EarlyTermination ==
    (Len(responses) >= 2 /\ responses[2].stop_reason # "tool_use") =>
        /\ Done
        /\ Len(calls) = 2
        /\ Len(responses) = 2
        /\ \A i \in DOMAIN dispatched : dispatched[i].round = 1
        /\ FirstBlockIsText(responses[2]) =>
               result = Return(<<responses[2].content[1].text>>)

\* the first follow-up call was answered with a text and end_turn, after a
\* round that dispatched a tool
C3_Witness ==
    /\ Done
    /\ Len(responses) = 2
    /\ responses[2].stop_reason = "end_turn"
    /\ FirstBlockIsText(responses[2])
    /\ Len(dispatched) > 0
    /\ result.kind = "return"

\* no tools were supplied: tools is None or an empty list
NoToolsSupplied == args.tools \in {"None", "[]"}

C5_NoToolUseSingleCall ==
    (/\ args.tools = "schemas"
     /\ args.tool_manager
     /\ Len(responses) >= 1
     /\ responses[1].stop_reason # "tool_use") =>
        /\ Done
        /\ Len(calls) = 1
        /\ Len(responses) = 1
        /\ dispatched = <<>>
        /\ FirstBlockIsText(responses[1]) =>
               result = Return(<<responses[1].content[1].text>>)

\* tools and a tool manager were supplied, the first response was a plain text
C5_Witness ==
    /\ Done
    /\ args.tools = "schemas"
    /\ args.tool_manager
    /\ Len(responses) = 1
    /\ responses[1].stop_reason = "end_turn"
    /\ FirstBlockIsText(responses[1])
    /\ result.kind = "return"

\* the tool-use blocks of a content list, in order
ToolUsesOf(content) ==
    LET IsToolUse(b) == b.type = "tool_use"
    IN  SelectSeq(content, IsToolUse)

\* the dispatches of round r, in order
DispatchesOf(r) ==
    LET InRound(d) == d.round = r
    IN  SelectSeq(dispatched, InRound)

\* C6: when the dispatcher raises for a tool-use block, the result of that
\* block is "Tool execution error: <cause>", every other tool-use block of the
\* response is dispatched all the same, the results of all of them are in the
\* one reply message of the round, and the round's follow-up call is made.
C6_ToolFaultKeepsRound ==
    /\ \A r \in 1..2 :
          Len(calls) >= r + 1 =>
              LET ds    == DispatchesOf(r)
                  sent  == calls[r + 1].messages
                  reply == sent[Len(sent)]
              IN  /\ [i \in DOMAIN ds |-> ds[i].block] = ToolUsesOf(responses[r].content)
                  /\ ds # <<>> =>
                        /\ reply.role = "user"
                        /\ Len(reply.content) = Len(ds)
                        /\ \A i \in DOMAIN ds :
                              /\ reply.content[i].tool_use_id = ds[i].block.id
                              /\ reply.content[i].content =
                                     IF ds[i].outcome.kind = "raise"
                                     THEN <<Lit("Tool execution error: ")>>
                                              \o ds[i].outcome.value.msg
                                     ELSE ds[i].outcome.value
    /\ \A i \in DOMAIN dispatched :
          (Done /\ dispatched[i].outcome.kind = "raise") =>
              Len(calls) >= dispatched[i].round + 1

\* a round of two tool-use blocks, the first of which raised and the second of
\* which returned, was followed by its backend call
C6_Witness ==
    /\ Len(calls) >= 2
    /\ Len(DispatchesOf(1)) = 2
    /\ DispatchesOf(1)[1].outcome.kind = "raise"
    /\ DispatchesOf(1)[2].outcome.kind = "return"

\* the run ended because the initial backend call raised
InitialFault == Done /\ Len(calls) = 1 /\ backend_fault # NoFault

\* the classes of the API errors of the backend client
ApiErrorClasses ==
    {"APIError", "APIStatusError", "APIConnectionError", "InternalServerError",
     "BadRequestError", "RateLimitError"}

\* the user-facing message of the category a fault belongs to
CategoryMessage(e) ==
    CASE e.cls = "BadRequestError" /\ (\E i \in DOMAIN e.msg : e.msg[i] = Lit(CreditText))
            -> CreditMessage
      [] e.cls = "BadRequestError" /\ ~(\E i \in DOMAIN e.msg : e.msg[i] = Lit(CreditText))
            -> ConfigPrefix \o e.msg
      [] e.cls = "RateLimitError"
            -> RateLimitMessage
      [] e.cls \in ApiErrorClasses \ {"BadRequestError", "RateLimitError"}
            -> ApiErrorPrefix \o e.msg
      [] OTHER
            -> UnexpectedPrefix \o e.msg

AssistantTexts(i) ==
    IF messages[i].role = "assistant"
    THEN { messages[i].content[j].text :
               j \in { k \in DOMAIN messages[i].content :
                           messages[i].content[k].type = "text" } }
    ELSE {}

Max(S) == CHOOSE x \in S : \A y \in S : x >= y

\* the run ended because the follow-up call of round r raised
FollowupFaultIn(r) ==
    Done /\ backend_fault # NoFault /\ Len(calls) = r + 1

\* the outcome C9 describes, for a given meaning of "longer than 20"
SalvagedBy(Long(_)) ==
    LET holders == { i \in DOMAIN messages : \E t \in AssistantTexts(i) : Long(t) }
    IN  IF holders = {}
        THEN result = Return(GenericFailurePrefix \o backend_fault.msg)
        ELSE \E t \in AssistantTexts(Max(holders)) :
                 /\ Long(t)
                 /\ result = Return(<<t>> \o InterruptedNote \o backend_fault.msg
                                        \o <<Lit(")")>>)

\* C9 as stated: a fault of the follow-up call of round 2 returns the text of
\* the most recent assistant message holding a text longer than 20 characters,
\* with the interruption note, or the generic failure message when there is
\* no such text.
C9_SalvageOver20Characters ==
    FollowupFaultIn(2) =>
        LET Long(t) == t.lead + t.core > 20
        IN  SalvagedBy(Long)

\* C9 amended: the length that must exceed 20 is the length of the text with
\* its surrounding whitespace trimmed.
C9_SalvageOver20Trimmed ==
    FollowupFaultIn(2) =>
        /\ salvage_ran
        /\ LET Long(t) == t.core > 20
           IN  SalvagedBy(Long)

\* the fault came in round 2, the newest assistant message holds only a text
\* that is too short once trimmed, and the text of the older one is salvaged
C9_Witness ==
    /\ FollowupFaultIn(2)
    /\ Len(messages) >= 4
    /\ AssistantTexts(4) # {}
    /\ \A t \in AssistantTexts(4) : t.core <= 20 /\ t.lead + t.core > 20
    /\ \E t \in AssistantTexts(2) : result.value[1] = t

\* C10: a fault of the first follow-up call returns "Error during tool
\* execution: <cause>", and the salvage pass does not run.
C10_FirstRoundFault ==
    FollowupFaultIn(1) =>
        /\ result = Return(<<Lit("Error during tool execution: ")>> \o backend_fault.msg)
        /\ ~salvage_ran

\* the first follow-up call raised although the assistant message held a text
\* the salvage pass would have returned
C10_Witness ==
    /\ FollowupFaultIn(1)
    /\ \E t \in AssistantTexts(2) : t.core > 20
    /\ result.kind = "return"

\* the positions of the text blocks of a content list
TextPositions(content) ==
    { i \in DOMAIN content : content[i].type = "text" }

\* the run ended without a fault of the backend
DoneWithoutFault ==
    Done /\ backend_fault = NoFault /\ responses # <<>>

\* C11: when the run ends without a backend fault, the string returned is the
\* first text block of the latest response, whatever blocks the content list
\* of that response holds around it.
C11_FirstTextBlockReturned ==
    LET latest == responses[Len(responses)]
    IN  (DoneWithoutFault /\ TextPositions(latest.content) # {}) =>
            result = Return(<<latest.content[Min(TextPositions(latest.content))].text>>)

\* the reply message of round r answers the tool-use blocks of the round's
\* response, one tool_result entry per block in the blocks' order
AnswersToolUses(reply, r) ==
    LET uses == ToolUsesOf(responses[r].content)
    IN  /\ reply.role = "user"
        /\ Len(reply.content) = Len(uses)
        /\ \A i \in DOMAIN uses :
              /\ reply.content[i].type = "tool_result"
              /\ reply.content[i].tool_use_id = uses[i].id

\* user and assistant messages alternate, starting with a user message
Alternating(msgs) ==
    \A i \in DOMAIN msgs :
        msgs[i].role = IF i % 2 = 1 THEN "user" ELSE "assistant"

\* C12 as stated: every tool round appends exactly one user message after the
\* assistant message, with one tool_result entry per tool-use block of the
\* round's response, so that the k-th follow-up call, when it is issued,
\* carries 1 + 2k alternating messages ending with the tool-results message.
C12_OneReplyPerRound ==
    pc = "await_followup" =>
        LET k    == Len(calls) - 1
            sent == calls[k + 1].messages
        IN  /\ Len(sent) = 1 + 2 * k
            /\ Alternating(sent)
            /\ AnswersToolUses(sent[Len(sent)], k)

\* the messages round j appends: the assistant message, and the reply message
\* when the round's response holds a tool-use block
AppendedIn(j) ==
    IF ToolUsesOf(responses[j].content) # <<>> THEN 2 ELSE 1

RECURSIVE AppendedUpTo(_)
AppendedUpTo(r) ==
    IF r = 0 THEN 0 ELSE AppendedUpTo(r - 1) + AppendedIn(r)

\* C12 amended: a tool round whose response holds at least one tool-use block
\* appends, after the assistant message, exactly one user message with one
\* tool_result entry per tool-use block; a round whose response holds no
\* tool-use block appends the assistant message alone.  When every round so
\* far held a tool-use block, the k-th follow-up call receives 1 + 2k
\* alternating messages ending with the tool-results message.
C12_OneReplyPerRoundWithToolUse ==
    pc = "await_followup" =>
        LET k      == Len(calls) - 1
            sent   == calls[k + 1].messages
            before == 1 + AppendedUpTo(k - 1)
        IN  /\ Len(sent) = before + AppendedIn(k)
            /\ SubSeq(sent, 1, before) = calls[k].messages
            /\ sent[before + 1] =
                   [role |-> "assistant", content |-> responses[k].content]
            /\ AppendedIn(k) = 2 => AnswersToolUses(sent[before + 2], k)
            /\ (\A j \in 1..k : AppendedIn(j) = 2) =>
                   /\ Len(sent) = 1 + 2 * k
                   /\ Alternating(sent)
                   /\ AnswersToolUses(sent[Len(sent)], k)

\* the second follow-up call was issued after a first round of two tool-use
\* blocks and a second round of one
C12_Witness ==
    /\ pc = "await_followup"
    /\ Len(calls) = 3
    /\ Len(ToolUsesOf(responses[1].content)) = 2
    /\ Len(ToolUsesOf(responses[2].content)) = 1
    /\ Len(calls[3].messages) = 5
    /\ Len(calls[3].messages[3].content) = 2

\* C13: the system content of the initial backend call is the base prompt
\* followed by the "Previous conversation:" section and the history exactly
\* when a non-empty history was passed; with no history, or an empty one, it
\* is the base prompt alone.
C13_HistorySection ==
    pc # "idle" =>
        LET history == args.conversation_history
            system  == calls[1].system
        IN  IF history.given /\ history.text # <<>>
            THEN /\ system = SYSTEM_PROMPT \o <<Lit("Previous conversation:")>>
                                 \o history.text
                 /\ Contains(system, "Previous conversation:")
            ELSE /\ system = SYSTEM_PROMPT
                 /\ ~Contains(system, "Previous conversation:")

\* the initial call was issued with a history of one exchange
C13_Witness ==
    /\ pc # "idle"
    /\ args.conversation_history.given
    /\ args.conversation_history.text # <<>>
    /\ Contains(calls[1].system, "Previous conversation:")
    /\ calls[1].system[Len(calls[1].system)]
           = args.conversation_history.text[Len(args.conversation_history.text)]

---------------------------------------------------------------------------
(* Properties of the vector store, the search tool and the session history *)

\* the latest call ran the store's search and the search returned
SearchReturned ==
    last_op.op \in {"search", "execute"} /\ last_op.outcome.kind = "return"

\* C14: every SearchResults value a search returns has documents, metadata
\* and distances of one length when its error is unset, has all three empty
\* when its error is set, and is_empty() holds exactly when documents is
\* empty.
C14_SearchResultsInvariant ==
    SearchReturned =>
        LET results == last_op.outcome.value
        IN  /\ ~results.error.given =>
                  /\ Len(results.documents) = Len(results.metadata)
                  /\ Len(results.metadata) = Len(results.distances)
            /\ results.error.given =>
                  /\ Len(results.documents) = 0
                  /\ Len(results.metadata) = 0
                  /\ Len(results.distances) = 0
            /\ IsEmpty(results) <=> Len(results.documents) = 0

\* a search failed on its course name and returned a value built by
\* SearchResults.empty
C14_Witness ==
    /\ SearchReturned
    /\ last_op.outcome.value.error.given
    /\ IsEmpty(last_op.outcome.value)

\* C15: _build_filter returns None when course title and lesson number are
\* both absent, the equality predicate on the one that is given when exactly
\* one is, and the $and of the course predicate and the lesson predicate when
\* both are; the filters search sends to the content collection have these
\* shapes too.
C15_BuildFilterShapes ==
    /\ last_op.op = "build_filter" =>
          LET title  == last_op.course_name
              lesson == last_op.lesson_number
          IN  /\ (~title.given /\ ~lesson.given) => last_op.filter = PyNone
              /\ (title.given /\ ~lesson.given) =>
                     last_op.filter = [course_title |-> title.value]
              /\ (~title.given /\ lesson.given) =>
                     last_op.filter = [lesson_number |-> lesson.value]
              /\ (title.given /\ lesson.given) =>
                     last_op.filter = [and |-> << [course_title |-> title.value],
                                                  [lesson_number |-> lesson.value] >>]
    /\ \A i \in DOMAIN last_op.queries :
          LET where == last_op.queries[i].where
          IN  \/ where = PyNone
              \/ \E title \in Courses : where = [course_title |-> title]
              \/ \E n \in 1..2 : where = [lesson_number |-> n]
              \/ \E title \in Courses, n \in 1..2 :
                     where = [and |-> << [course_title |-> title],
                                         [lesson_number |-> n] >>]

\* _build_filter was called with a course title and a lesson number
C15_Witness ==
    /\ last_op.op = "build_filter"
    /\ last_op.course_name.given
    /\ last_op.lesson_number.given
    /\ "and" \in DOMAIN last_op.filter

C17_QueryFaultBecomesError ==
    (last_op.op \in {"search", "execute"} /\ last_op.fault # NoFault) =>
        /\ last_op.outcome.kind # "raise"
        /\ last_op.outcome =
               Return(Empty(<<Lit("Search error: ")>> \o last_op.fault.msg))

\* the content collection was queried and raised
C17_Witness ==
    /\ last_op.op = "search"
    /\ last_op.fault # NoFault
    /\ Len(last_op.queries) = 1
    /\ last_op.outcome.kind = "return"

\* C18: course-name resolution returns the stored title a name matches
\* exactly, in part or in another case, and None for a name that matches no
\* stored title, whether or not the catalog is empty.
C18_ResolutionMatchesOrNone ==
    last_op.op = "resolve" =>
        LET name == last_op.course_name.value
        IN  IF MatchOf(name) \in course_catalog
            THEN last_op.resolved = Some(MatchOf(name))
            ELSE last_op.resolved = NoneStr

\* the latest call was an execute call whose search returned
ExecuteReturned ==
    last_op.op = "execute" /\ last_op.outcome.kind = "return"

C20_HistoryKeepsLastN ==
    \A id \in SessionIds :
        LET history == sessions[id]
            log     == asked[id]
            kept    == Min({max_history, Len(log)})
        IN  /\ Len(history) <= max_history
            /\ history = SubSeq(log, Len(log) - kept + 1, Len(log))
            /\ Len(log) > 0 => history[Len(history)] = log[Len(log)]

\* a third exchange pushed the first one out of a session's history
C20_Witness ==
    \E id \in SessionIds :
        /\ Len(asked[id]) = 3
        /\ Len(sessions[id]) = 2
        /\ asked[id][2].query # asked[id][3].query
        /\ sessions[id] = <<asked[id][2], asked[id][3]>>

---------------------------------------------------------------------------
(* Properties of the HTTP handlers *)

\* the calls of one name a handled request made, in order
CallsOf(h, name) == SelectSeq(h.calls, LAMBDA c : c.name = name)

\* the request carries a session id under this field (None and "" carry none)
Carries(id) == id.given /\ id.value # ""

\* C21: /api/query calls create_session exactly when the request carries no
\* session id, passes the supplied or the newly created id to the RAG query,
\* and returns that id in its response; an exception raised while handling
\* becomes a 500 response whose detail is the exception's text.
C21_QuerySessionAndErrors ==
    \A n \in DOMAIN handled :
        handled[n].endpoint = "/api/query" =>
            LET h        == handled[n]
                supplied == h.request.session_id
                creates  == CallsOf(h, "create_session")
                queries  == CallsOf(h, "query")
                raised   == { i \in DOMAIN h.calls : h.calls[i].outcome.kind = "raise" }
            IN  /\ Len(creates) = IF Carries(supplied) THEN 0 ELSE 1
                /\ Len(queries) <= 1
                /\ \A i \in DOMAIN queries :
                       queries[i].args =
                           << h.request.query,
                              IF Carries(supplied) THEN supplied.value
                                                   ELSE creates[1].outcome.value >>
                /\ h.response.status_code = 200 =>
                       /\ Len(queries) = 1
                       /\ h.response.body.session_id = queries[1].args[2]
                /\ \A i \in raised :
                       h.response = [ status_code |-> 500,
                                      body |-> [detail |-> h.calls[i].outcome.value.msg] ]
                /\ raised = {} => h.response.status_code = 200

\* a request without a session id was answered under a created id, a request
\* with one under its own id, and a failing RAG query gave a 500 response
C21_Witness ==
    /\ \E n \in DOMAIN handled :
           /\ handled[n].endpoint = "/api/query"
           /\ handled[n].request.session_id = NoneStr
           /\ Len(handled[n].calls) = 2
           /\ handled[n].response.status_code = 200
           /\ handled[n].response.body.session_id = "test-session-123"
    /\ \E n \in DOMAIN handled :
           /\ handled[n].endpoint = "/api/query"
           /\ handled[n].request.session_id = Some("old-session-456")
           /\ Len(handled[n].calls) = 1
           /\ handled[n].calls[1].outcome.kind = "raise"
           /\ handled[n].response.status_code = 500
           /\ Contains(handled[n].response.body.detail, "RAG system error")

\* C22: /api/new-session calls clear_session(old_session_id) exactly when an
\* old session id is supplied, calls it before create_session, and returns
\* the id create_session produced.
C22_ClearBeforeCreate ==
    \A n \in DOMAIN handled :
        handled[n].endpoint = "/api/new-session" =>
            LET h      == handled[n]
                old    == h.request.old_session_id
                clears == CallsOf(h, "clear_session")
            IN  /\ Len(clears) = IF Carries(old) THEN 1 ELSE 0
                /\ \A i \in DOMAIN clears : clears[i].args = <<old.value>>
                /\ \A i, j \in DOMAIN h.calls :
                       /\ h.calls[i].name = "clear_session"
                       /\ h.calls[j].name = "create_session"
                       => i < j
                /\ Len(CallsOf(h, "create_session")) <= 1
                /\ \A j \in DOMAIN h.calls :
                       /\ h.calls[j].name = "create_session"
                       /\ h.calls[j].outcome.kind = "return"
                       => h.response = [ status_code |-> 200,
                                         body |-> [session_id |-> h.calls[j].outcome.value] ]
                /\ h.response.status_code = 200 =>
                       \E j \in DOMAIN h.calls : h.calls[j].name = "create_session"

\* a request with an old session id cleared it, then created the session it
\* returned; a request without one only created a session
C22_Witness ==
    /\ \E n \in DOMAIN handled :
           /\ handled[n].endpoint = "/api/new-session"
           /\ handled[n].request.old_session_id = Some("old-session-456")
           /\ Len(handled[n].calls) = 2
           /\ handled[n].calls[1].name = "clear_session"
           /\ handled[n].calls[1].args = <<"old-session-456">>
           /\ handled[n].calls[2].name = "create_session"
           /\ handled[n].response.status_code = 200
           /\ handled[n].response.body.session_id = "test-session-123"
    /\ \E n \in DOMAIN handled :
           /\ handled[n].endpoint = "/api/new-session"
           /\ handled[n].request.old_session_id = NoneStr
           /\ Len(handled[n].calls) = 1
           /\ handled[n].response.status_code = 200

---------------------------------------------------------------------------
(* Properties of the messages and system prompts of the tool loop *)

\* position of the assistant message of round j in the message list
AssistantAt(j) == 1 + AppendedUpTo(j - 1) + 1

\* C23: the assistant message appended at the start of each round carries the
\* whole content list of the response that opened the round, text blocks as
\* well as tool-use blocks, unmodified and in the order emitted; it is sent
\* so with every later call.
C23_AssistantMessageWholeContent ==
    /\ pc = "exec_tools" =>
          /\ Len(messages) = AssistantAt(current_round)
          /\ messages[Len(messages)].role = "assistant"
          /\ messages[Len(messages)].content = responses[current_round].content
    /\ pc = "await_followup" =>
          \A j \in 1..(Len(calls) - 1) :
              LET sent == calls[Len(calls)].messages
              IN  /\ sent[AssistantAt(j)].role = "assistant"
                  /\ sent[AssistantAt(j)].content = responses[j].content

\* the second follow-up call carries two assistant messages, one of a text
\* block followed by a tool-use block and one of a tool-use block followed by
\* a text block
C23_Witness ==
    /\ pc = "await_followup"
    /\ Len(calls) = 3
    /\ Len(responses[1].content) = 2
    /\ responses[1].content[1].type = "text"
    /\ responses[1].content[2].type = "tool_use"
    /\ Len(responses[2].content) = 2
    /\ responses[2].content[1].type = "tool_use"
    /\ responses[2].content[2].type = "text"
    /\ calls[3].messages[2].content = responses[1].content
    /\ calls[3].messages[4].content = responses[2].content

\* the tool_result entry the loop builds for a dispatch
ResultOf(d) ==
    [ type        |-> "tool_result",
      tool_use_id |-> d.block.id,
      content     |-> IF d.outcome.kind = "return"
                      THEN d.outcome.value
                      ELSE <<Lit("Tool execution error: ")>> \o d.outcome.value.msg ]

\* C24: within a round the tool-use blocks are dispatched in the order the
\* model emitted them, one per step; the i-th entry of the round's tool
\* results is the result of the i-th tool-use block, other blocks give no
\* entry; the follow-up call is issued only when every tool-use block of the
\* round has been dispatched, and carries these results.
C24_DispatchInEmittedOrder ==
    pc \in {"exec_tools", "await_followup"} =>
        LET uses == ToolUsesOf(current_response.content)
            ds   == DispatchesOf(current_round)
        IN  /\ Len(ds) <= Len(uses)
            /\ \A i \in DOMAIN ds : ds[i].block = uses[i]
            /\ tool_results = [i \in DOMAIN ds |-> ResultOf(ds[i])]
            /\ pc = "await_followup" =>
                  /\ Len(ds) = Len(uses)
                  /\ uses # <<>> =>
                        LET sent == calls[Len(calls)].messages
                        IN  sent[Len(sent)].content = tool_results

\* round 1 answered a text block followed by a tool-use block with one
\* result; round 2 dispatched two tool-use blocks in their order, the second
\* dispatch raising, before its follow-up call
C24_Witness ==
    /\ pc = "await_followup"
    /\ Len(calls) = 3
    /\ Len(responses[1].content) = 2
    /\ responses[1].content[1].type = "text"
    /\ Len(DispatchesOf(1)) = 1
    /\ DispatchesOf(1)[1].block = responses[1].content[2]
    /\ Len(current_response.content) = 2
    /\ Len(tool_results) = 2
    /\ tool_results[1].tool_use_id = current_response.content[1].id
    /\ tool_results[2].tool_use_id = current_response.content[2].id
    /\ DispatchesOf(2)[2].outcome.kind = "raise"

\* s is the beginning of t
IsPrefix(s, t) == Len(s) <= Len(t) /\ SubSeq(t, 1, Len(s)) = s

\* C25: the message list only grows during one orchestration: the list sent
\* with each follow-up call has the list of the previous call as a prefix,
\* its first element is the original user query, and the list the loop holds
\* between two calls begins with the list of the latest call.
C25_MessagesOnlyGrow ==
    /\ pc = "exec_tools" =>
          /\ IsPrefix(calls[Len(calls)].messages, messages)
          /\ messages[1] = [role |-> "user", content |-> args.query]
    /\ pc = "await_followup" =>
          LET k == Len(calls) - 1
          IN  /\ IsPrefix(calls[k].messages, calls[k + 1].messages)
              /\ Len(calls[k].messages) < Len(calls[k + 1].messages)
              /\ calls[k + 1].messages = messages
              /\ calls[k + 1].messages[1] = [role |-> "user", content |-> args.query]

\* the second follow-up call was sent five messages that begin with the
\* three of the first follow-up call
C25_Witness ==
    /\ pc = "await_followup"
    /\ Len(calls) = 3
    /\ Len(calls[2].messages) = 3
    /\ Len(calls[3].messages) = 5
    /\ SubSeq(calls[3].messages, 1, 3) = calls[2].messages
    /\ calls[3].messages[1] = calls[1].messages[1]

\* the three guidance sentences of the round directive
FirstOpportunity ==
    "This is your first opportunity to use tools. Consider if you need broad or specific information."
FinalOpportunity ==
    "This is your final tool call opportunity. Make it count - be specific and targeted based on previous results."
NoMoreToolCalls ==
    "No more tool calls available. Provide your final answer based on all previous information."

\* the directive "Round r/max: <guidance>"
Directive(r, max, guidance) ==
    <<Lit("Round "), Lit(ToString(r)), Lit("/"), Lit(ToString(max)), Lit(": "),
      Lit(guidance)>>

\* C26: _build_round_system_prompt(base, r, max) returns base followed by a
\* directive that contains "Round r/max", with the first-opportunity guidance
\* when r = 1, the final-tool-call-opportunity guidance when r = 2, and the
\* no-more-tool-calls guidance for every other r.
C26_RoundPromptShape ==
    \A n \in DOMAIN round_prompts :
        LET c == round_prompts[n]
        IN  c.prompt =
                c.base_prompt \o
                Directive(c.current_round, c.max_rounds,
                          CASE c.current_round = 1 -> FirstOpportunity
                            [] c.current_round = 2 -> FinalOpportunity
                            [] OTHER               -> NoMoreToolCalls)

\* a prompt was built for round 3 of 2 on a base with a history section, and
\* one for round 0
C26_Witness ==
    /\ \E n \in DOMAIN round_prompts :
           /\ round_prompts[n].current_round = 3
           /\ round_prompts[n].max_rounds = 2
           /\ Contains(round_prompts[n].base_prompt, "Previous conversation:")
           /\ round_prompts[n].prompt[Len(round_prompts[n].prompt)] = Lit(NoMoreToolCalls)
    /\ \E n \in DOMAIN round_prompts :
           /\ round_prompts[n].current_round = 0
           /\ round_prompts[n].prompt[Len(round_prompts[n].prompt)] = Lit(NoMoreToolCalls)

\* the last fragments of a system prompt: its directive, if it ends with one
LastOf(sys, n) == SubSeq(sys, Len(sys) - n + 1, Len(sys))

\* C27: no backend call issued by the tool loop carries the
\* no-more-tool-calls directive: the first follow-up call carries the
\* "Round 1/2" directive with the first-opportunity guidance, the second
\* follow-up call, sent without tool schemas, the "Round 2/2" directive with
\* the final-tool-call-opportunity guidance.  Stated of each follow-up call
\* as it is issued.
C27_NoExhaustedDirective ==
    pc = "await_followup" =>
        LET j == Len(calls)
        IN  /\ j \in {2, 3}
            /\ ~Contains(calls[j].system, NoMoreToolCalls)
            /\ j = 2 => LastOf(calls[j].system, 6) = Directive(1, 2, FirstOpportunity)
            /\ j = 3 => /\ LastOf(calls[j].system, 6) = Directive(2, 2, FinalOpportunity)
                        /\ calls[j].tools = "absent"
                        /\ calls[j].tool_choice = "absent"

\* the second follow-up call was issued, and the first one offered the tools
C27_Witness ==
    /\ pc = "await_followup"
    /\ Len(calls) = 3
    /\ calls[2].tools = "schemas"
    /\ calls[3].tools = "absent"
    /\ calls[3].system[Len(calls[3].system)] = Lit(FinalOpportunity)

\* C28: the system prompt of every follow-up call equals the system content
\* of the initial call, with its conversation-history section if any,
\* followed by exactly one round directive; the directives of earlier rounds
\* do not accumulate.  Stated of each follow-up call as it is issued.
C28_OneDirectivePerCall ==
    pc = "await_followup" =>
        LET j   == Len(calls)
            sys == calls[j].system
        IN  /\ calls[1].system = SystemContent(args.conversation_history)
            /\ Len(sys) = Len(calls[1].system) + 6
            /\ SubSeq(sys, 1, Len(calls[1].system)) = calls[1].system
            /\ LastOf(sys, 6)[1] = Lit("Round ")
            /\ LastOf(sys, 6)[2] = Lit(ToString(j - 1))
            /\ Cardinality({ i \in DOMAIN sys : sys[i] = Lit("Round ") }) = 1

\* the second follow-up call of a run with a conversation history
C28_Witness ==
    /\ pc = "await_followup"
    /\ Len(calls) = 3
    /\ Contains(calls[1].system, "Previous conversation:")
    /\ Contains(calls[3].system, "Previous conversation:")
    /\ Len(calls[3].system) = Len(calls[2].system)
    /\ calls[3].system # calls[2].system

\* the five messages the except clauses of generate_response begin with
CategoryHeads ==
    { CreditMessage[1], ConfigPrefix[1], RateLimitMessage[1], ApiErrorPrefix[1],
      UnexpectedPrefix[1] }

C30_FollowupFaultNotCategorised ==
    (Done /\ backend_fault # NoFault /\ Len(calls) >= 2) =>
        LET r == Len(calls) - 1
        IN  /\ r \in 1..2
            /\ result.kind = "return"
            /\ result.value # CategoryMessage(backend_fault)
            /\ result.value[1] \notin CategoryHeads
            /\ r = 1 => result.value =
                            <<Lit("Error during tool execution: ")>> \o backend_fault.msg
            /\ r = 2 =>
                  \/ result.value = GenericFailurePrefix \o backend_fault.msg
                  \/ /\ Len(result.value) = 3 + Len(backend_fault.msg)
                     /\ result.value[2] = InterruptedNote[1]
                     /\ \E i \in DOMAIN messages : result.value[1] \in AssistantTexts(i)

\* the follow-up calls of both rounds raised the credit-exhaustion error in
\* some run: here the one of round 2
C30_Witness ==
    /\ FollowupFaultIn(2)
    /\ backend_fault.cls = "BadRequestError"
    /\ Contains(backend_fault.msg, CreditText)
    /\ result.kind = "return"
    /\ result.value # CreditMessage

---------------------------------------------------------------------------
(* Properties of the rounds, of termination and of the frame *)

\* the blocks of a content list
BlocksOf(content) == { content[i] : i \in DOMAIN content }

\* C31: tools are dispatched only for the tool-use blocks of the initial
\* response and of the response to the first follow-up call; the tool-use
\* blocks of the response to the second follow-up call are never dispatched:
\* a query has at most two rounds of tool execution.
C31_AtMostTwoToolRounds ==
    /\ pc = "exec_tools" =>
          /\ current_round \in 1..2
          /\ current_round = Len(responses)
          /\ \A i \in DOMAIN dispatched :
                /\ dispatched[i].round \in 1..2
                /\ dispatched[i].round <= current_round
                /\ dispatched[i].block \in BlocksOf(responses[dispatched[i].round].content)
    /\ (Done /\ Len(responses) = 3) =>
          \A i \in DOMAIN dispatched :
              dispatched[i].block \notin BlocksOf(responses[3].content)

\* the response to the second follow-up call asked for a tool again after
\* two rounds with dispatches, and the run ended
C31_Witness ==
    /\ Done
    /\ Len(responses) = 3
    /\ responses[3].stop_reason = "tool_use"
    /\ ToolUsesOf(responses[3].content) # <<>>
    /\ DispatchesOf(1) # <<>>
    /\ DispatchesOf(2) # <<>>
    /\ DispatchesOf(3) = <<>>

\* C36: when the first response has stop_reason "tool_use" but no tool
\* manager was passed to generate_response, no tool is dispatched and no
\* follow-up backend call is made: exactly one backend call occurs.
C36_NoManagerNoLoop ==
    (pc \notin {"idle", "await_initial"} /\ ~args.tool_manager) =>
        /\ Done
        /\ Len(calls) = 1
        /\ Len(responses) <= 1
        /\ dispatched = <<>>
        /\ messages = <<>>

\* a run without a tool manager, given the tool schemas, ended on a first
\* response that asked for a tool
C36_Witness ==
    /\ Done
    /\ ~args.tool_manager
    /\ args.tools = "schemas"
    /\ Len(responses) = 1
    /\ responses[1].stop_reason = "tool_use"
    /\ ToolUsesOf(responses[1].content) # <<>>
    /\ Len(calls) = 1
    /\ dispatched = <<>>

\* positions of the text blocks of message i whose trimmed length is over 20,
\* when it is an assistant message
LongTextsAt(i) ==
    IF messages[i].role = "assistant"
    THEN { j \in DOMAIN messages[i].content :
               /\ messages[i].content[j].type = "text"
               /\ messages[i].content[j].text.core > 20 }
    ELSE {}

\* the run ended in the salvage pass
SalvagePassRan == Done /\ backend_fault # NoFault /\ Len(calls) = 3

\* C34: the salvage pass considers assistant messages only; it picks the
\* newest assistant message that holds a qualifying text block and, within
\* that message, the earliest qualifying block.
C34_NewestMessageEarliestBlock ==
    SalvagePassRan =>
        LET holders == { i \in DOMAIN messages : LongTextsAt(i) # {} }
        IN  /\ holders # {} =>
                  \E i \in holders : \E j \in LongTextsAt(i) :
                      /\ \A k \in holders : k <= i
                      /\ \A l \in LongTextsAt(i) : j <= l
                      /\ result.value[1] = messages[i].content[j].text
            /\ \A j \in DOMAIN messages[1].content :
                  result.value[1] # messages[1].content[j]
            /\ \A i \in DOMAIN messages :
                  (i > 1 /\ messages[i].role = "user") =>
                      \A j \in DOMAIN messages[i].content :
                          \A f \in DOMAIN messages[i].content[j].content :
                              result.value[1] # messages[i].content[j].content[f]

\* both assistant messages hold qualifying texts, the newer one two of them,
\* and the first text of the newer message is returned
C34_Witness ==
    /\ SalvagePassRan
    /\ Len(messages) = 4
    /\ messages[3].role = "user"
    /\ LongTextsAt(2) # {}
    /\ LongTextsAt(4) = {1, 2}
    /\ result.value[1] = messages[4].content[1].text
    /\ result.value[1] # messages[4].content[2].text

\* the texts of the assistant messages
AllAssistantTexts == UNION { AssistantTexts(i) : i \in DOMAIN messages }

\* C35: a text qualifies for salvage only when its length with the
\* surrounding whitespace trimmed is strictly greater than 20: an assistant
\* text of trimmed length 20 or less is never returned, and when there is no
\* other assistant text the generic failure message is returned.
C35_TrimmedLengthOver20 ==
    SalvagePassRan =>
        /\ \A t \in AllAssistantTexts :
               PyLen(PyStrip(t)) <= 20 => result.value[1] # t
        /\ (\A t \in AllAssistantTexts : PyLen(PyStrip(t)) <= 20) =>
               result = Return(GenericFailurePrefix \o backend_fault.msg)

\* the only assistant texts have a trimmed length of exactly 20 and a raw
\* length above it, and the generic failure message is returned
C35_Witness ==
    /\ SalvagePassRan
    /\ AllAssistantTexts # {}
    /\ \A t \in AllAssistantTexts : t.core = 20 /\ t.lead + t.core > 20
    /\ result = Return(GenericFailurePrefix \o backend_fault.msg)

---------------------------------------------------------------------------
(* Properties of filtered searches and of the search tool's errors *)

\* C37: every hit returned by a search with a course filter has the resolved
\* course title in its metadata, every hit returned with a lesson filter has
\* that lesson number, and with both filters every hit satisfies both.
C37_HitsSatisfyFilters ==
    (SearchReturned /\ ~last_op.outcome.value.error.given) =>
        \A i \in DOMAIN last_op.outcome.value.metadata :
            LET meta == last_op.outcome.value.metadata[i]
            IN  /\ last_op.course_name.given =>
                      /\ last_op.resolved.given
                      /\ meta.course_title = last_op.resolved.value
                /\ last_op.lesson_number.given =>
                      meta.lesson_number = last_op.lesson_number.value

\* a search with a course name and a lesson number returned a hit while the
\* store held chunks of another course and of another lesson
C37_Witness ==
    /\ last_op.op = "search"
    /\ last_op.course_name.given
    /\ last_op.lesson_number = Some(2)
    /\ last_op.outcome.kind = "return"
    /\ Len(last_op.outcome.value.metadata) = 1
    /\ last_op.outcome.value.metadata[1] =
           [course_title |-> MLCourse, lesson_number |-> 2]
    /\ [course_title |-> MLCourse, lesson_number |-> 1] \in course_content
    /\ [course_title |-> TestCourse, lesson_number |-> 1] \in course_content

\* C38: when the store's search reports an error, CourseSearchTool.execute
\* returns that error string unchanged and formats no results: no header, no
\* document, and last_sources is left as it was.
C38_ErrorReturnedVerbatim ==
    (ExecuteReturned /\ last_op.outcome.value.error.given) =>
        /\ last_op.text = last_op.outcome.value.error.value
        /\ last_op.text # NoContentMessage(last_op.course_name, last_op.lesson_number)
        /\ last_sources = last_op.prior_sources

\* execute met a fault of the content query while last_sources held the
\* sources of an earlier call
C38_Witness ==
    /\ ExecuteReturned
    /\ last_op.fault # NoFault
    /\ last_op.outcome.value.error.given
    /\ Contains(last_op.text, "Search error: ")
    /\ last_op.prior_sources # <<>>
    /\ last_sources = last_op.prior_sources

---------------------------------------------------------------------------
(* Properties of repeated invocations *)

\* C32: provided every backend call and every tool execution returns or
\* raises, every invocation of generate_response eventually returns, whatever
\* stop_reason each response carries.
C32_EveryInvocationReturns ==
    (pc = "await_initial") ~> (Done /\ result.kind = "return")

\* an invocation returned after three responses that all asked for a tool
C32_Witness ==
    /\ Done
    /\ result.kind = "return"
    /\ Len(responses) = 3
    /\ \A k \in 1..3 : responses[k].stop_reason = "tool_use"

\* C33: the tool loop leaves the request parameters of its caller as they
\* were built (the initial message list holds the user query alone) and the
\* base_params of the generator unmodified, and the round counter and the
\* accumulated messages belong to one invocation: a later invocation on the
\* same generator starts with the single user message, at round 1.
C33_FrameAndFreshStart ==
    /\ self_base_params = GeneratorBaseParams
    /\ pc # "idle" =>
          /\ api_params = BuildApiParams(args.query, args.conversation_history,
                                         args.tools)
          /\ api_params.messages = << [role |-> "user", content |-> args.query] >>
          /\ calls[1].messages = << [role |-> "user", content |-> args.query] >>
    /\ (pc = "exec_tools" /\ Len(calls) = 1) =>
          /\ current_round = 1
          /\ messages = << [role |-> "user", content |-> args.query],
                           [role |-> "assistant", content |-> responses[1].content] >>

\* the earlier invocation returned at round 3 with five messages; the later
\* one is in its first round with the user query and one assistant message
C33_Witness ==
    /\ earlier.returned
    /\ earlier.current_round = 3
    /\ earlier.messages = 5
    /\ pc = "exec_tools"
    /\ Len(calls) = 1
    /\ current_round = 1
    /\ Len(messages) = 2
    /\ Len(api_params.messages) = 1

====
